---- MODULE Spec2Model ----
(***************************************************************************)
(* A model of the CouchDB agent check (src/couch/check.py): the HTTP       *)
(* fetcher CouchDb.get, the version dispatcher CouchDb.check and the two   *)
(* stat extractors CouchDB1 and CouchDB2.                                  *)
(*                                                                         *)
(* One invocation of CouchDb.check is one action (Check).  The answers of  *)
(* the monitored servers are the action's inputs: every fetch draws its    *)
(* response from Responses(...).  The operators that model the code return *)
(* the SET of executions the code can make, one per choice of responses    *)
(* and of dictionary/set iteration order.  An execution is a record (see   *)
(* Begin) with the check object's state and everything emitted so far.     *)
(***************************************************************************)
EXTENDS Integers, Sequences, FiniteSets, Bags, TLC

VARIABLES
    checker,         \* CouchDb.checker: None, a CouchDB1 (with its db_blacklist) or a CouchDB2
    pc,              \* "idle": between invocations; "done": check(instance) has returned or raised
    instance,        \* the argument of the last invocation
    service_checks,  \* service checks emitted by the last invocation, in order
    gauges,          \* bag of the gauges emitted by the last invocation
    requests,        \* HTTP requests issued by the last invocation, in order, with their outcome
    discovered,      \* the database names /_all_dbs answered in the last invocation
    raised,          \* the exception the last invocation propagated, or NoExc
    created,         \* history: number of extractor objects constructed so far
    denied,          \* history: <<server, db>> for every per-database fetch answered 401/403 so far
    nruns,           \* number of invocations so far
    resolved_by,     \* history: the server whose probe resolved the extractor, or NoServer
    applied          \* SpecPure: the function applied last, its arguments and its result

vars == <<checker, pc, instance, service_checks, gauges, requests, discovered, raised, created,
          denied, nruns, resolved_by, applied>>

----------------------------------------------------------------------------
(* Bounds of the model *)

MaxRuns == 3

Servers == {"http://a:5984", "http://b:5984"}
NodeNames == {"node1@a"}
DbNames == {"kennel", "_users"}

(* Program constants *)
MAX_DB == 50
SERVICE_CHECK_NAME == "couchdb.can_connect"

----------------------------------------------------------------------------
(* JSON values as the parsed documents r.json() returns.  JNull is also    *)
(* Python's None.                                                          *)

JNull == [t |-> "null"]
JNum(n) == [t |-> "num", n |-> n]
JStr(s) == [t |-> "str", s |-> s]
JArr(a) == [t |-> "arr", a |-> a]
JObj(o) == [t |-> "obj", o |-> o]

(* A local variable that has not been assigned yet. *)
Unbound == [t |-> "unbound"]

(* d[k] = v on a dict. *)
Put(d, k, v) == [x \in DOMAIN d \cup {k} |-> IF x = k THEN v ELSE d[x]]
(* del d[k] *)
Del(d, k) == [x \in DOMAIN d \ {k} |-> d[x]]
EmptyDict == [x \in {} |-> JNull]

(* All orders in which a finite set can be iterated. *)
RECURSIVE Orders(_)
Orders(S) ==
    IF S = {} THEN {<<>>}
    ELSE UNION {{<<x>> \o o : o \in Orders(S \ {x})} : x \in S}

Range(s) == {s[i] : i \in 1..Len(s)}

----------------------------------------------------------------------------
(* Exceptions *)

NoExc == [type |-> "none"]
Exc(t) == [type |-> t]
HTTPError(code) == [type |-> "HTTPError", status_code |-> code]

(* Tags: "key:value" strings kept as pairs. *)
Tag(k, v) == <<k, v>>

----------------------------------------------------------------------------
(* The instances the agent passes in.  A dict: a missing key is a missing  *)
(* field of the record.                                                    *)

WithKey(S, k, V) == S \cup {[x \in DOMAIN r \cup {k} |-> IF x = k THEN v ELSE r[x]] : r \in S, v \in V}

Whitelists == {<<>>, <<"kennel">>}
Blacklists == {<<"kennel">>}

Instances ==
    WithKey(WithKey(WithKey(WithKey({<<>>}, "server", Servers), "name", NodeNames),
                    "db_whitelist", Whitelists), "db_blacklist", Blacklists)

Has(i, k) == k \in DOMAIN i

----------------------------------------------------------------------------
(* What the monitored servers can answer. *)

ErrorCodes == {401, 403, 404, 500}

Resp(code, body) == [kind |-> "response", status_code |-> code, body |-> body]
TimeoutResp == [kind |-> "timeout", status_code |-> 0, body |-> JNull]
ErrorResp == [kind |-> "error", status_code |-> 0, body |-> JNull]

Responses(bodies) ==
    {Resp(200, b) : b \in bodies} \cup {Resp(c, JNull) : c \in ErrorCodes}
        \cup {TimeoutResp, ErrorResp}

(* Version strings, as sequences of characters. *)
V160 == <<"1", ".", "6", ".", "0">>
V231 == <<"2", ".", "3", ".", "1">>
V300 == <<"3", ".", "0", ".", "0">>
V102 == <<"1", "0", ".", "2">>
V2 == <<"2">>
Versions == {V160, V231, V300, V102, V2}

RootBodies == {JObj([version |-> JStr(v)]) : v \in Versions}

----------------------------------------------------------------------------
(* An execution of check(instance): the check object's state and what the  *)
(* invocation has done so far.  exc # NoExc: an exception is propagating.  *)

Begin(chk) ==
    [checker |-> chk, sc |-> <<>>, gauges |-> EmptyBag, reqs |-> <<>>,
     exc |-> NoExc, ret |-> JNull, created |-> 0,
     \* locals of CouchDB1.get_data
     stats |-> JNull, databases |-> EmptyDict, db_stats |-> Unbound, discovered |-> {}]

Raise(e, x) == [e EXCEPT !.exc = x]

ServiceCheck(status, tags) == [name |-> SERVICE_CHECK_NAME, status |-> status, tags |-> tags]

(* A URL: the server and the endpoint joined to it. *)
Url(server, ep, arg) == [server |-> server, ep |-> ep, arg |-> arg]

(* requests' Response.raise_for_status: HTTPError for 4xx and 5xx. *)
raise_for_status(code) == code >= 400 /\ code < 600

(* One line of the request log: the call's arguments, the answer, and what *)
(* the call did: the service checks it emitted and the exception it raised.*)
Logged(url, tags, run_check, resp, emitted, exc) ==
    [url |-> url, tags |-> tags, run_check |-> run_check, kind |-> resp.kind,
     status_code |-> resp.status_code, body |-> resp.body, emitted |-> emitted, exc |-> exc]

(* A fetcher that raises without emitting the CRITICAL service check. *)
OnFailure_silent(e, url, tags, run_check, resp, x) ==
    [e EXCEPT !.reqs = Append(@, Logged(url, tags, run_check, resp, <<>>, x)), !.exc = x]

(* get, lines 47-58: what the three except clauses do with exception x.    *)
(* None of them reads run_check.                                           *)
OnFailure(e, url, tags, run_check, resp, x) ==
    LET critical == ServiceCheck("CRITICAL", tags)
    IN  [e EXCEPT !.sc = Append(@, critical),
                  !.reqs = Append(@, Logged(url, tags, run_check, resp, <<critical>>, x)),
                  !.exc = x]

(* get, lines 43-46 and 59: the request succeeded. *)
OnSuccess(e, url, tags, run_check, resp) ==
    LET emitted == IF run_check THEN <<ServiceCheck("OK", tags)>> ELSE <<>>
    IN  [e EXCEPT !.sc = @ \o emitted,
                  !.reqs = Append(@, Logged(url, tags, run_check, resp, emitted, NoExc)),
                  !.ret = resp.body]

(* CouchDb.get answered by resp. *)
get(e, url, tags, run_check, resp) ==
    CASE resp.kind = "timeout" -> OnFailure(e, url, tags, run_check, resp, Exc("Timeout"))
      [] resp.kind = "error" -> OnFailure(e, url, tags, run_check, resp, Exc("ConnectionError"))
      [] resp.kind = "response" /\ raise_for_status(resp.status_code) ->
            OnFailure(e, url, tags, run_check, resp, HTTPError(resp.status_code))
      [] OTHER -> OnSuccess(e, url, tags, run_check, resp)

(* Every way a fetch can go. *)
Fetch(e, url, tags, run_check, bodies) ==
    {get(e, url, tags, run_check, r) : r \in Responses(bodies)}

Ok(e) == e.exc = NoExc

(* A get_server that reports the missing server as a failed connection.    *)
get_server_noisy(e, inst) ==
    IF Has(inst, "server") THEN e
    ELSE Raise([e EXCEPT !.sc = Append(@, ServiceCheck("CRITICAL", <<>>))], Exc("MissingServer"))

(* CouchDb.get_server: raises when the instance has no server.  The value *)
(* it returns is inst.server.                                              *)
get_server(e, inst) ==
    IF Has(inst, "server") THEN e ELSE Raise(e, Exc("MissingServer"))

----------------------------------------------------------------------------
(* CouchDB1 *)

(* The documents of the model's servers.  /_stats/: category -> metric ->  *)
(* {current}.  A database: doc_count, disk_size and other fields.          *)
StatsDoc1 ==
    JObj([httpd |-> JObj([requests |-> JObj([current |-> JNum(12)])]),
          couchdb |-> JObj([open_databases |-> JObj([current |-> JNull])])])
StatsBodies1 == {StatsDoc1, JNull}

DbDocA == JObj([doc_count |-> JNum(7), disk_size |-> JNum(100), db_name |-> JStr("a")])
DbDocB == JObj([doc_count |-> JNum(9), disk_size |-> JNull])
DbBodies1 == {DbDocA, DbDocB, JNull}

(* /_all_dbs answers a list of database names. *)
AllDbsBodies == {JArr(o) : o \in UNION {Orders(S) : S \in SUBSET DbNames}}

(* A server with one database more than MAX_DB, named "1", "2", ...        *)
ManyDbs == [i \in 1..(MAX_DB + 1) |-> ToString(i)]

(* What /_all_dbs/ answers the v1 extractor. *)
AllDbsBodies1 == AllDbsBodies \cup {JArr(ManyDbs)}

(* CouchDB1.__init__: the attributes of a new extractor (the class has no  *)
(* base class and no method named warning).  db_blacklist starts as {};    *)
(* get_data reads db_blacklist[server] only after setdefault(server, []),  *)
(* so a missing key and an empty list are the same to it.                  *)
NewCouchDB1 ==
    [kind |-> "CouchDB1", db_blacklist |-> [s \in Servers |-> <<>>],
     attrs |-> {"MAX_DB", "db_blacklist", "agent_check", "gauge", "_create_metric",
                "check", "get_data"}]

(* self.<name>(...) on the extractor: AttributeError when it has no such   *)
(* attribute.                                                              *)
CallSelf(e, name) ==
    IF name \in e.checker.attrs THEN e ELSE Raise(e, Exc("AttributeError"))

Gauge(name, value, tags) == [name |-> name, value |-> value, tags |-> tags]

(* The (category, metric) pairs of a stats document. *)
StatPairs(stats) == UNION {{<<k, m>> : m \in DOMAIN stats.o[k].o} : k \in DOMAIN stats.o}

(* A first loop that tests the truth of current: 0 is left out with null. *)
GlobalGauges_truthy(stats, tags) ==
    {Gauge(<<"couchdb", p[1], p[2]>>, stats.o[p[1]].o[p[2]].o.current, tags) :
        p \in {q \in StatPairs(stats) : stats.o[q[1]].o[q[2]].o.current \notin {JNull, JNum(0)}}}

(* CouchDB1._create_metric, first loop: the global gauges. *)
GlobalGauges(stats, tags) ==
    {Gauge(<<"couchdb", p[1], p[2]>>, stats.o[p[1]].o[p[2]].o.current, tags) :
        p \in {q \in StatPairs(stats) : stats.o[q[1]].o[q[2]].o.current # JNull}}

(* The gauges of one database's document. *)
DbGauges1(db_name, db_stats, tags) ==
    {Gauge(<<"couchdb", "by_db", name>>, db_stats.o[name], Append(tags, Tag("db", db_name))) :
        name \in {n \in DOMAIN db_stats.o : n \in {"doc_count", "disk_size"}
                                              /\ db_stats.o[n] # JNull}}

(* CouchDB1._create_metric, second loop, over data['databases'] in the     *)
(* order `order`: an entry that is None raises at db_stats.items().        *)
RECURSIVE ByDbLoop1(_, _, _)
ByDbLoop1(e, order, tags) ==
    IF order = <<>> THEN e
    ELSE LET db_name == Head(order)
             db_stats == e.databases[db_name]
         IN  IF db_stats = JNull THEN Raise(e, Exc("AttributeError"))
             ELSE ByDbLoop1([e EXCEPT !.gauges = @ (+) SetToBag(DbGauges1(db_name, db_stats, tags))],
                            Tail(order), tags)

_create_metric(e, tags) ==
    LET e1 == [e EXCEPT !.gauges = @ (+) SetToBag(GlobalGauges(e.stats, tags))]
    IN  {ByDbLoop1(e1, o, tags) : o \in Orders(DOMAIN e.databases)}

(* get_data, lines 137-142: the databases to poll. *)
EffectiveDbs1(all_dbs, blacklist, inst) ==
    LET db_whitelist == IF Has(inst, "db_whitelist") THEN inst.db_whitelist ELSE <<>>
        \* set(db_whitelist) if db_whitelist else None: an empty list is falsy
        whitelist == IF db_whitelist # <<>> THEN Range(db_whitelist) ELSE {}
        databases == Range(all_dbs) \ Range(blacklist)
    IN  IF whitelist # {} THEN databases \cap whitelist ELSE databases

(* get_data, line 154 *)
IsForbidden(status_code) == status_code = 403 \/ status_code = 401

(* An extractor that forgets the database it was denied. *)
BlacklistAppend_skip(e, server, dbName) == e

BlacklistAppend(e, server, dbName) ==
    [e EXCEPT !.checker.db_blacklist[server] = Append(@, dbName)]

(* An extractor that keeps one blacklist for all servers. *)
BlacklistExtend_everywhere(e, server, inst) ==
    [e EXCEPT !.checker.db_blacklist =
        [s \in Servers |-> @[s] \o (IF Has(inst, "db_blacklist") THEN inst.db_blacklist ELSE <<>>)]]

BlacklistExtend(e, server, inst) ==
    [e EXCEPT !.checker.db_blacklist[server] =
        @ \o (IF Has(inst, "db_blacklist") THEN inst.db_blacklist ELSE <<>>)]

(* get_data, lines 152-160, after the fetch for dbName raised HTTPError:   *)
(* the except clause, and the statement after the try when the clause      *)
(* falls through.  TRUE in `next`: the loop goes on.                       *)
OnHTTPError1(e, server, dbName) ==
    LET code == e.exc.status_code
        e1 == [e EXCEPT !.exc = NoExc, !.databases = Put(@, dbName, JNull)]
    IN  IF IsForbidden(code)
        THEN LET e2 == CallSelf(BlacklistAppend(e1, server, dbName), "warning")
             IN  IF Ok(e2) THEN [e2 EXCEPT !.databases = Del(@, dbName)] ELSE e2
        ELSE \* no raise: falls out of the except clause to `if db_stats is not None`
             IF e1.db_stats = Unbound THEN Raise(e1, Exc("UnboundLocalError"))
             ELSE IF e1.db_stats # JNull
                  THEN [e1 EXCEPT !.databases = Put(@, dbName, e1.db_stats)]
                  ELSE e1

(* get_data, lines 148-160: one iteration, answered by resp. *)
DbStep1(e, server, dbName, tags, resp) ==
    LET f == get(e, Url(server, "<db>", dbName), tags, FALSE, resp)
    IN  IF Ok(f)
        THEN [f EXCEPT !.db_stats = f.ret,
                       !.databases = IF f.ret # JNull THEN Put(@, dbName, f.ret) ELSE @]
        ELSE IF f.exc.type = "HTTPError" THEN OnHTTPError1(f, server, dbName)
        ELSE f

RECURSIVE DbLoop1(_, _, _, _)
DbLoop1(e, server, order, tags) ==
    IF order = <<>> \/ ~Ok(e) THEN {e}
    ELSE UNION {DbLoop1(DbStep1(e, server, Head(order), tags, r), server, Tail(order), tags) :
                    r \in Responses(DbBodies1)}

(* get_data, lines 131-148, after /_stats/ has been fetched into e.ret *)
AfterStats1(e, server, inst, tags) ==
    IF e.ret = JNull THEN {Raise(e, Exc("NoStats"))}
    ELSE LET e1 == BlacklistExtend([e EXCEPT !.stats = e.ret], server, inst)
         IN  UNION {
               IF ~Ok(f) THEN {f}
               ELSE LET databases == EffectiveDbs1(f.ret.a, f.checker.db_blacklist[server], inst)
                        f1 == [f EXCEPT !.discovered = Range(f.ret.a)]
                    IN  IF Cardinality(databases) > MAX_DB
                        THEN LET f2 == CallSelf(f1, "warning")
                             IN  IF ~Ok(f2) THEN {f2}
                                 ELSE UNION {UNION {DbLoop1(f2, server, o, tags) : o \in Orders(S)} :
                                        S \in {T \in SUBSET databases : Cardinality(T) = MAX_DB}}
                        ELSE UNION {DbLoop1(f1, server, o, tags) : o \in Orders(databases)}
               : f \in Fetch(e1, Url(server, "/_all_dbs/", ""), tags, FALSE, AllDbsBodies1)}

(* CouchDB1.get_data *)
get_data(e, server, inst, tags) ==
    UNION {IF Ok(f) THEN AfterStats1(f, server, inst, tags) ELSE {f} :
              f \in Fetch(e, Url(server, "/_stats/", ""), tags, TRUE, StatsBodies1)}

(* CouchDB1.check *)
CouchDB1_check(e, inst) ==
    LET e0 == get_server(e, inst)
        tags == <<Tag("instance", inst.server)>>
    IN  IF ~Ok(e0) THEN {e0}
        ELSE UNION {IF Ok(f) THEN _create_metric(f, tags) ELSE {f} :
                       f \in get_data(e0, inst.server, inst, tags)}

----------------------------------------------------------------------------
(* CouchDB2 *)

NewCouchDB2 == [kind |-> "CouchDB2", attrs |-> {"agent_check", "gauge", "_build_metrics",
                "_build_db_metrics", "check", "_get_node_stats"}]

(* /_node/<name>/_stats: nested sections; a leaf has a type and a value.   *)
NodeDoc2 ==
    JObj([couchdb |-> JObj([
            open_databases |-> JObj([type |-> JStr("counter"), value |-> JNum(3),
                                     desc |-> JStr("open databases")]),
            request_time |-> JObj([type |-> JStr("histogram"), desc |-> JStr("request time"),
                value |-> JObj([min |-> JNum(1),
                                percentile |-> JArr(<<JArr(<<JNum(50), JNum(12)>>),
                                                      JArr(<<JNum(90), JNum(45)>>)>>),
                                histogram |-> JArr(<<JArr(<<JNum(1), JNum(2)>>)>>)])])])])
StatsBodies2 == {NodeDoc2, JNull}

DbDoc2 ==
    JObj([sizes |-> JObj([file |-> JNum(10), active |-> JNum(4)]),
          purge_seq |-> JNum(0), doc_del_count |-> JNum(1), doc_count |-> JNum(5),
          db_name |-> JStr("x")])
DbBodies2 == {DbDoc2}

(* "{0}".format(x) of a JSON scalar. *)
Format(j) == IF j.t = "num" THEN ToString(j.n) ELSE j.s

(* The bag of the elements of a sequence. *)
RECURSIVE BagOfSeq(_)
BagOfSeq(q) == IF q = <<>> THEN EmptyBag ELSE SetToBag({Head(q)}) (+) BagOfSeq(Tail(q))

(* A flattening that takes the histogram entry for one more statistic.     *)
HistogramGauges_all(prefix, key, value, tags) ==
    SetToBag({Gauge(prefix \o <<key, metric>>, value.o[metric], tags) : metric \in DOMAIN value.o})

(* _build_metrics, lines 172-180: the gauges of a histogram node, one per  *)
(* percentile pair and one per other entry but `histogram`.                *)
HistogramGauges(prefix, key, value, tags) ==
    LET OfMetric(metric) ==
            IF metric = "histogram" THEN EmptyBag
            ELSE IF metric = "percentile"
            THEN BagOfSeq([i \in 1..Len(value.o[metric].a) |->
                            Gauge(prefix \o <<key, "percentile", Format(value.o[metric].a[i].a[1])>>,
                                  value.o[metric].a[i].a[2], tags)])
            ELSE SetToBag({Gauge(prefix \o <<key, metric>>, value.o[metric], tags)})
        RECURSIVE Sum(_)
        Sum(metrics) == IF metrics = {} THEN EmptyBag
                        ELSE LET m == CHOOSE x \in metrics : TRUE
                             IN  OfMetric(m) (+) Sum(metrics \ {m})
    IN  Sum(DOMAIN value.o)

(* CouchDB2._build_metrics: the bag of gauges of a document below prefix.  *)
(* A string or a list that holds no "type" is passed over (lines 171,181). *)
RECURSIVE _build_metrics(_, _, _)
_build_metrics(data, tags, prefix) ==
    LET OfKey(key) ==
            LET value == data.o[key]
            IN  IF value.t = "obj" /\ "type" \in DOMAIN value.o
                THEN IF value.o.type = JStr("histogram")
                     THEN HistogramGauges(prefix, key, value.o.value, tags)
                     ELSE SetToBag({Gauge(prefix \o <<key>>, value.o.value, tags)})
                ELSE IF value.t = "obj"
                THEN _build_metrics(value, tags, prefix \o <<key>>)
                ELSE EmptyBag
        RECURSIVE Sum(_)
        Sum(keys) == IF keys = {} THEN EmptyBag
                     ELSE LET k == CHOOSE x \in keys : TRUE
                          IN  OfKey(k) (+) Sum(keys \ {k})
    IN  Sum(DOMAIN data.o)

(* CouchDB2._build_db_metrics *)
_build_db_metrics(data, tags) ==
    SetToBag({Gauge(<<"couchdb", "by_db", key \o "_size">>, data.o.sizes.o[key], tags) :
                 key \in DOMAIN data.o.sizes.o})
    (+) SetToBag({Gauge(<<"couchdb", "by_db", key>>, data.o[key], tags) :
                 key \in {"purge_seq", "doc_del_count", "doc_count"}})

(* check, line 206 *)
Selected2(db, inst) == ~Has(inst, "db_whitelist") \/ db \in Range(inst.db_whitelist)

(* check, lines 205-208: the loop over the list /_all_dbs answered. *)
RECURSIVE DbLoop2(_, _, _, _)
DbLoop2(e, inst, dbs, name) ==
    IF dbs = <<>> \/ ~Ok(e) THEN {e}
    ELSE LET db == Head(dbs)
             tags == <<Tag("instance", name), Tag("db", db)>>
         IN  IF Selected2(db, inst)
             THEN UNION {
                    DbLoop2(IF Ok(f) THEN [f EXCEPT !.gauges = @ (+) _build_db_metrics(f.ret, tags)]
                            ELSE f, inst, Tail(dbs), name)
                    : f \in Fetch(e, Url(inst.server, "<db>", db), tags, FALSE, DbBodies2)}
             ELSE DbLoop2(e, inst, Tail(dbs), name)

(* CouchDB2._get_node_stats and the _build_metrics of its result *)
_get_node_stats(e, server, name, tags) ==
    {IF Ok(f) /\ f.ret = JNull THEN Raise(f, Exc("NoStats")) ELSE f :
        f \in Fetch(e, Url(server, "/_node/{}/_stats", name), tags, TRUE, StatsBodies2)}

(* CouchDB2.check *)
CouchDB2_check(e, inst) ==
    LET e0 == get_server(e, inst)
    IN  IF ~Ok(e0) THEN {e0}
        ELSE IF ~Has(inst, "name") THEN {Raise(e0, Exc("MissingName"))}
        ELSE LET tags == <<Tag("instance", inst.name)>>
             IN  UNION {
                   IF ~Ok(f) THEN {f}
                   ELSE LET f1 == [f EXCEPT !.gauges = @ (+) _build_metrics(f.ret, tags, <<"couchdb">>)]
                        IN  UNION {IF Ok(g)
                                   THEN DbLoop2([g EXCEPT !.discovered = Range(g.ret.a)],
                                                inst, g.ret.a, inst.name)
                                   ELSE {g}
                                   : g \in Fetch(f1, Url(inst.server, "/_all_dbs", ""), tags, FALSE,
                                                 AllDbsBodies)}
                   : f \in _get_node_stats(e0, inst.server, inst.name, tags)}

----------------------------------------------------------------------------
(* CouchDb, the check object *)

NoChecker == [kind |-> "None"]

(* A prefix test that looks at the first character only. *)
startswith_first(s, prefix) == Len(s) >= 1 /\ s[1] = prefix[1]

(* str.startswith *)
startswith(s, prefix) ==
    Len(s) >= Len(prefix) /\ SubSeq(s, 1, Len(prefix)) = prefix

(* A dispatcher that takes every version but 1.x for 2.x. *)
SelectChecker_lenient(e, version) ==
    IF startswith(version, <<"1", ".">>)
    THEN [e EXCEPT !.checker = NewCouchDB1, !.created = @ + 1]
    ELSE [e EXCEPT !.checker = NewCouchDB2, !.created = @ + 1]

(* check, lines 66-71: the extractor for a version string, or the error. *)
SelectChecker(e, version) ==
    IF startswith(version, <<"1", ".">>)
    THEN [e EXCEPT !.checker = NewCouchDB1, !.created = @ + 1]
    ELSE IF startswith(version, <<"2", ".">>)
    THEN [e EXCEPT !.checker = NewCouchDB2, !.created = @ + 1]
    ELSE Raise(e, Exc("UnsupportedVersion"))

(* check, lines 63-71: the version probe, made when no checker is cached.  *)
Probe(e, inst) ==
    LET name == IF Has(inst, "name") THEN inst.name ELSE inst.server
    IN  {IF Ok(f) THEN SelectChecker(f, f.ret.o.version.s) ELSE f :
            f \in Fetch(e, Url(inst.server, "/", ""), <<Tag("instance", name)>>, TRUE, RootBodies)}

(* self.checker.check(instance) *)
checker_check(e, inst) ==
    IF e.checker.kind = "CouchDB1" THEN CouchDB1_check(e, inst) ELSE CouchDB2_check(e, inst)

(* A dispatcher that probes on every invocation. *)
NeedsProbe_always(chk) == TRUE

(* check, line 63 *)
NeedsProbe(chk) == chk = NoChecker

(* CouchDb.check: every execution of check(inst) on a check object whose   *)
(* checker is chk.                                                         *)
CouchDb_check(chk, inst) ==
    LET e0 == get_server(Begin(chk), inst)
    IN  IF ~Ok(e0) THEN {e0}
        ELSE UNION {IF Ok(e) THEN checker_check(e, inst) ELSE {e} :
                       e \in IF NeedsProbe(chk) THEN Probe(e0, inst) ELSE {e0}}

----------------------------------------------------------------------------
(* The state machine *)

NoInstance == <<>>
NoServer == ""

(* CouchDb.__init__ *)
Init ==
    /\ checker = NoChecker
    /\ pc = "idle"
    /\ instance = NoInstance
    /\ service_checks = <<>>
    /\ gauges = EmptyBag
    /\ requests = <<>>
    /\ discovered = {}
    /\ raised = NoExc
    /\ created = 0
    /\ denied = {}
    /\ nruns = 0
    /\ resolved_by = NoServer
    /\ applied = [fn |-> "none"]

(* The per-database fetches of an execution that were answered 401/403. *)
DeniedIn(reqs) ==
    {<<reqs[i].url.server, reqs[i].url.arg>> :
        i \in {j \in 1..Len(reqs) : reqs[j].url.ep = "<db>" /\ reqs[j].status_code \in {401, 403}}}

(* The agent invokes check(inst). *)
Check(inst) ==
    /\ pc = "idle"
    /\ nruns < MaxRuns
    /\ \E e \in CouchDb_check(checker, inst) :
        /\ checker' = e.checker
        /\ service_checks' = e.sc
        /\ gauges' = e.gauges
        /\ requests' = e.reqs
        /\ discovered' = e.discovered
        /\ raised' = e.exc
        /\ created' = created + e.created
        /\ denied' = denied \cup DeniedIn(e.reqs)
    /\ instance' = inst
    /\ pc' = "done"
    /\ nruns' = nruns + 1
    /\ resolved_by' = IF checker = NoChecker /\ checker' # NoChecker THEN inst.server
                      ELSE resolved_by
    /\ UNCHANGED applied

(* The agent collects what the invocation emitted (and logs what it        *)
(* raised); the check object keeps its checker.                            *)
Collect ==
    /\ pc = "done"
    /\ pc' = "idle"
    /\ instance' = NoInstance
    /\ service_checks' = <<>>
    /\ gauges' = EmptyBag
    /\ requests' = <<>>
    /\ discovered' = {}
    /\ raised' = NoExc
    /\ UNCHANGED <<checker, created, denied, nruns, resolved_by, applied>>

Next ==
    \/ \E inst \in Instances : Check(inst)
    \/ Collect

Spec == Init /\ [][Next]_vars

----------------------------------------------------------------------------
(* The metric builders as functions of the document they are given.       *)

(* Documents for _build_metrics.  A typed node is a counter or a histogram *)
(* whose value map holds any of min, percentile (a list of [label, value]  *)
(* pairs, repeats allowed) and histogram.                                  *)
MaxPairs == 2

Pairs == {JArr(<<JNum(50), JNum(12)>>), JArr(<<JNum(90), JNum(45)>>)}
PercentileLists == UNION {[1..n -> Pairs] : n \in 0..MaxPairs}

Counter(n) == JObj([type |-> JStr("counter"), value |-> JNum(n), desc |-> JStr("a counter")])
Histogram(value) == JObj([type |-> JStr("histogram"), value |-> value, desc |-> JStr("a histogram")])

HistogramValues ==
    {JObj([m \in M |-> IF m = "percentile" THEN JArr(ps)
                       ELSE IF m = "histogram" THEN JArr(<<JArr(<<JNum(1), JNum(2)>>)>>)
                       ELSE JNum(1)]) :
        M \in SUBSET {"min", "percentile", "histogram"}, ps \in PercentileLists}

TypedNodes == {Counter(0), Counter(3)} \cup {Histogram(v) : v \in HistogramValues}

Sections ==
    {JObj([request_time |-> n]) : n \in TypedNodes}
        \cup {JObj([request_time |-> n, open_databases |-> Counter(3)]) : n \in TypedNodes}

NestedSections ==
    {JStr("n/a"),
     JObj([httpd |-> JObj([requests |-> Counter(0)])]),
     JObj([httpd |-> JObj([requests |-> Histogram(JObj([min |-> JNum(1),
                                percentile |-> JArr(<<JArr(<<JNum(50), JNum(12)>>)>>)])),
                           note |-> JStr("n/a")])])}

NodeDocs ==
    {JObj([couchdb |-> c]) : c \in Sections}
        \cup {JObj([couchdb |-> c, mem3 |-> n]) : c \in Sections, n \in NestedSections}

(* Data for _create_metric: the stats document and the databases dict that *)
(* get_data returns.  current is a number (0 included) or null; a          *)
(* database's document has doc_count and disk_size, null, or neither; an   *)
(* entry of the dict can be None.                                          *)
Currents == {JNum(12), JNum(0), JNull}
Cur(c) == JObj([current |-> c, description |-> JStr("a statistic")])

StatsDocs1 ==
    {JObj([httpd |-> JObj([requests |-> Cur(a), view_reads |-> Cur(b)]),
           couchdb |-> JObj([open_databases |-> Cur(c)])]) : a \in Currents, b \in {JNum(3), JNull},
                                                             c \in Currents}

DbDocs1 ==
    {JObj([f \in F \cup {"db_name"} |->
              IF f = "db_name" THEN JStr("a") ELSE IF f \in N THEN JNull
              ELSE IF f = "doc_count" THEN JNum(0) ELSE JNum(100)]) :
        F \in SUBSET {"doc_count", "disk_size"}, N \in SUBSET {"doc_count", "disk_size"}}

DatabasesDicts == UNION {[K -> DbDocs1 \cup {JNull}] : K \in SUBSET DbNames}

PureTags == <<Tag("instance", "http://a:5984")>>

(* self._build_metrics(data, tags), as check calls it (line 201). *)
Apply_build_metrics(data) ==
    /\ applied.fn = "none"
    /\ applied' = [fn |-> "_build_metrics", data |-> data, tags |-> PureTags,
                   out |-> _build_metrics(data, PureTags, <<"couchdb">>)]
    /\ UNCHANGED <<checker, pc, instance, service_checks, gauges, requests, discovered, raised,
                   created, denied, nruns, resolved_by>>

(* self._create_metric(data, tags), as check calls it (line 111). *)
Apply_create_metric(stats, databases) ==
    /\ applied.fn = "none"
    /\ \E e \in _create_metric([Begin(NewCouchDB1) EXCEPT !.stats = stats,
                                                         !.databases = databases], PureTags) :
          applied' = [fn |-> "_create_metric", stats |-> stats, databases |-> databases,
                      tags |-> PureTags, out |-> e.gauges, exc |-> e.exc]
    /\ UNCHANGED <<checker, pc, instance, service_checks, gauges, requests, discovered, raised,
                   created, denied, nruns, resolved_by>>

NextPure ==
    \/ \E data \in NodeDocs : Apply_build_metrics(data)
    \/ \E stats \in StatsDocs1, databases \in DatabasesDicts : Apply_create_metric(stats, databases)

SpecPure == Init /\ [][NextPure]_vars

----------------------------------------------------------------------------
(* Vocabulary of the properties *)

Done == pc = "done"
Resolved == checker # NoChecker
IsV1 == checker.kind = "CouchDB1"
IsV2 == checker.kind = "CouchDB2"

Reqs == {requests[i] : i \in 1..Len(requests)}
PrimaryReqs == {r \in Reqs : r.run_check}
DbReqs == {r \in Reqs : r.url.ep = "<db>"}
ProbeReqs == {r \in Reqs : r.url.ep = "/"}
Fetched(d) == \E r \in DbReqs : r.url.arg = d
Is2xx(r) == r.kind = "response" /\ r.status_code >= 200 /\ r.status_code <= 299
IsAuthError(r) == r.kind = "response" /\ r.status_code \in {401, 403}
IsOtherHttpError(r) ==
    r.kind = "response" /\ r.status_code >= 400 /\ r.status_code \notin {401, 403}

ByDbGauges == {g \in BagToSet(gauges) : Len(g.name) >= 2 /\ g.name[2] = "by_db"}
HasByDbGauge(d) == \E g \in ByDbGauges : Tag("db", d) \in Range(g.tags)

RECURSIVE Flatten(_)
Flatten(ss) == IF ss = <<>> THEN <<>> ELSE Head(ss) \o Flatten(Tail(ss))

----------------------------------------------------------------------------
(* C1: a call of get with run_check false emits no service check, whatever *)
(* its outcome.  The code's except clauses emit CRITICAL without looking   *)
(* at run_check, so a failed /_all_dbs or per-database fetch violates it.  *)
C1_NonPrimaryCallEmitsNothing ==
    \A r \in Reqs : ~r.run_check => r.emitted = <<>>

C3_OneOkPerSuccessfulRun ==
    (Done /\ raised = NoExc /\ Reqs # {} /\ \A r \in Reqs : Is2xx(r)) =>
        service_checks =
            <<ServiceCheck("OK", <<Tag("instance", IF IsV1 THEN instance.server
                                                    ELSE instance.name)>>)>>

(* C4: in the v1 extractor a per-database fetch answered with an HTTP      *)
(* error other than 401/403 fails the run, first database or not.  The     *)
(* except clause does not re-raise: after a successful fetch the run goes  *)
(* on and completes.                                                       *)
C4_OtherHttpErrorFailsRun ==
    (Done /\ IsV1 /\ \E r \in DbReqs : IsOtherHttpError(r)) => raised # NoExc

(* C5 as stated: once a per-database fetch on S was answered 401/403 for   *)
(* d, no later invocation fetches d on S or emits a by_db gauge for d on   *)
(* S.  The v2 extractor keeps no blacklist and fetches d again.            *)
NoLaterUse(s, d) ==
    (pc' = "done" /\ Has(instance', "server") /\ instance'.server = s) =>
        /\ ~\E i \in 1..Len(requests') :
              requests'[i].url.ep = "<db>" /\ requests'[i].url.arg = d
        /\ ~\E g \in BagToSet(gauges') : Tag("db", d) \in Range(g.tags)

C5_DeniedNeverFetchedAgain ==
    [][\A p \in denied : NoLaterUse(p[1], p[2])]_vars

(* C5, amended: the same for a check object whose extractor is CouchDB1.   *)
C5_DeniedNeverFetchedAgainV1 ==
    [][IsV1 => \A p \in denied : NoLaterUse(p[1], p[2])]_vars

(* C5's case: a completed v1 run on a server that lists a database denied  *)
(* in an earlier run.                                                      *)
C5_Witness ==
    /\ Done /\ IsV1 /\ raised = NoExc
    /\ \E d \in discovered : <<instance.server, d>> \in denied /\ ~Fetched(d)
    /\ \E d \in discovered : Fetched(d)

(* C6: a 401/403 on a per-database fetch does not fail a v1 run: the       *)
(* database is blacklisted and left out, and the run completes with the    *)
(* global gauges and the readable databases' gauges.  CouchDB1 has no      *)
(* warning method, so the run ends in AttributeError right after the       *)
(* blacklist is extended.                                                  *)
C6_AuthErrorDoesNotFailRun ==
    (Done /\ IsV1 /\ \E r \in DbReqs : IsAuthError(r)) =>
        /\ raised = NoExc
        /\ \A r \in DbReqs :
              /\ IsAuthError(r) =>
                    (r.url.arg \in Range(checker.db_blacklist[r.url.server])
                     /\ ~HasByDbGauge(r.url.arg))
              /\ (Is2xx(r) /\ r.body = DbDocA) => HasByDbGauge(r.url.arg)
        /\ \E g \in BagToSet(gauges) : g.name = <<"couchdb", "httpd", "requests">>

(* C7: a database that is discovered and in the instance's db_blacklist is *)
(* never fetched and gets no by_db gauge, for any instance.  CouchDB2      *)
(* never reads db_blacklist.                                               *)
C7_ConfiguredBlacklistExcluded ==
    (Done /\ Has(instance, "db_blacklist")) =>
        \A d \in discovered \cap Range(instance.db_blacklist) :
            ~Fetched(d) /\ ~HasByDbGauge(d)

(* C8: with db_whitelist configured only discovered, whitelisted           *)
(* databases are fetched and get by_db gauges, for every whitelist value,  *)
(* the empty list included; without one, a completed run has polled every  *)
(* discovered database that is not excluded.  CouchDB1 takes an empty      *)
(* whitelist for no whitelist.                                             *)
C8_WhitelistRestrictsPolling ==
    /\ (Done /\ Has(instance, "db_whitelist")) =>
          \A d \in DbNames :
              (Fetched(d) \/ HasByDbGauge(d)) =>
                  d \in discovered \cap Range(instance.db_whitelist)
    /\ (Done /\ Resolved /\ ~Has(instance, "db_whitelist") /\ raised = NoExc) =>
          \A d \in discovered :
              (IsV1 => d \notin Range(checker.db_blacklist[instance.server])) => Fetched(d)

(* C9: the dispatcher selects the extractor by the prefix of the probed    *)
(* version: "1." -> CouchDB1, "2." -> CouchDB2, anything else raises the   *)
(* unsupported-version error with no extractor run and no gauge emitted.   *)
IsMajor(v, c) == Len(v) >= 2 /\ v[1] = c /\ v[2] = "."

C9_DispatchByPrefix ==
    \A r \in ProbeReqs : Is2xx(r) =>
        LET v == r.body.o.version.s
        IN  /\ IsMajor(v, "1") =>
                (IsV1 /\ \A q \in Reqs \ ProbeReqs : q.url.ep \in {"/_stats/", "/_all_dbs/", "<db>"})
            /\ IsMajor(v, "2") =>
                (IsV2 /\ \A q \in Reqs \ ProbeReqs :
                            q.url.ep \in {"/_node/{}/_stats", "/_all_dbs", "<db>"})
            /\ (~IsMajor(v, "1") /\ ~IsMajor(v, "2")) =>
                /\ raised = Exc("UnsupportedVersion")
                /\ checker = NoChecker
                /\ Reqs = ProbeReqs
                /\ gauges = EmptyBag

(* C9's case: the probe answered "10.2", which starts with 1 but not with  *)
(* "1.", and the invocation raised the unsupported-version error.          *)
C9_Witness ==
    /\ Done
    /\ raised = Exc("UnsupportedVersion")
    /\ \E r \in ProbeReqs : Is2xx(r) /\ r.body.o.version.s = V102

(* C10: once an extractor is resolved, every later invocation reuses that  *)
(* same extractor object (same version, its blacklists kept) and fetches   *)
(* the root endpoint no more; one extractor is ever constructed.           *)
IsPrefix(a, b) == Len(a) <= Len(b) /\ SubSeq(b, 1, Len(a)) = a

C10_Step ==
    Resolved =>
        /\ checker'.kind = checker.kind
        /\ IsV1 => \A s \in Servers : IsPrefix(checker.db_blacklist[s], checker'.db_blacklist[s])
        /\ created' = created
        /\ \A i \in 1..Len(requests') : requests'[i].url.ep # "/"

C10_ExtractorReused ==
    /\ [](Resolved => created = 1)
    /\ [][C10_Step]_vars

(* C10's case: an invocation that started with the extractor resolved has  *)
(* made its fetches.                                                       *)
C10_Witness ==
    /\ Done /\ Resolved /\ nruns >= 2
    /\ Reqs # {} /\ ProbeReqs = {}

(* C11: an invocation on an instance without server raises the             *)
(* missing-server error before any request is made: it emits no service    *)
(* check and no gauge and leaves the cached extractor and every blacklist  *)
(* as they were, whatever the dispatcher's state.                          *)
C11_Step ==
    (pc' = "done" /\ ~Has(instance', "server")) =>
        /\ raised' = Exc("MissingServer")
        /\ requests' = <<>>
        /\ service_checks' = <<>>
        /\ gauges' = EmptyBag
        /\ checker' = checker
        /\ created' = created

C11_MissingServerFailsEarly == [][C11_Step]_vars

(* C11's case: the invocation without server was made on a check object    *)
(* whose v1 extractor holds a blacklisted database.                        *)
C11_Witness ==
    /\ Done /\ ~Has(instance, "server") /\ IsV1
    /\ \E s \in Servers : checker.db_blacklist[s] # <<>>

(* C11's other cases: the dispatcher unresolved, and resolved to CouchDB2. *)
C11_WitnessUnresolved == Done /\ ~Has(instance, "server") /\ ~Resolved
C11_WitnessV2 == Done /\ ~Has(instance, "server") /\ IsV2

(* C12: _build_metrics emits, for a histogram node at key k below prefix   *)
(* p, one gauge p.k.percentile.<label> per pair of its percentile list,    *)
(* one gauge p.k.<m> per other entry m and none for `histogram`; for any   *)
(* other typed node the one gauge p.k with its value; it descends into a   *)
(* mapping without type with prefix p.k.  So the gauges are exactly those  *)
(* of the typed nodes reached through untyped mappings, each named by the  *)
(* dot-joined path from couchdb.                                           *)
MaxDepth == 3

PathKeys == {"couchdb", "mem3", "request_time", "open_databases", "httpd", "requests", "note"}
Paths == UNION {[1..n -> PathKeys] : n \in 1..MaxDepth}

Absent == [t |-> "absent"]
IsMapping(j) == j.t = "obj"
IsTyped(j) == IsMapping(j) /\ "type" \in DOMAIN j.o

(* The node a path of keys leads to through mappings without type. *)
RECURSIVE At(_, _)
At(j, path) ==
    IF path = <<>> THEN j
    ELSE IF IsMapping(j) /\ ~IsTyped(j) /\ Head(path) \in DOMAIN j.o
    THEN At(j.o[Head(path)], Tail(path))
    ELSE Absent

(* What the claim says a document emits: one entry per gauge. *)
Emissions(data, prefix, tags) ==
    UNION {
        LET node == At(data, path)
            name == prefix \o path
        IN  IF ~IsTyped(node) THEN {}
            ELSE IF node.o.type = JStr("histogram")
            THEN LET value == node.o.value.o
                     pairs == IF "percentile" \in DOMAIN value THEN value.percentile.a ELSE <<>>
                 IN  {[at |-> path, m |-> "percentile", i |-> i,
                       g |-> Gauge(name \o <<"percentile", ToString(pairs[i].a[1].n)>>,
                                   pairs[i].a[2], tags)] : i \in 1..Len(pairs)}
                     \cup {[at |-> path, m |-> m, i |-> 0,
                            g |-> Gauge(name \o <<m>>, value[m], tags)] :
                               m \in DOMAIN value \ {"percentile", "histogram"}}
            ELSE {[at |-> path, m |-> "", i |-> 0, g |-> Gauge(name, node.o.value, tags)]}
        : path \in Paths}

C12_FlattenedGauges ==
    applied.fn = "_build_metrics" =>
        LET em == Emissions(applied.data, <<"couchdb">>, applied.tags)
        IN  \A g \in BagToSet(applied.out) \cup {x.g : x \in em} :
                CopiesIn(g, applied.out) = Cardinality({x \in em : x.g = g})

(* C12's case: a document with a histogram holding two equal percentile    *)
(* pairs, a histogram entry and another entry, and a typed node two        *)
(* mappings down.                                                          *)
C12_Witness ==
    /\ applied.fn = "_build_metrics"
    /\ LET em == Emissions(applied.data, <<"couchdb">>, applied.tags)
       IN  /\ \E x, y \in em : x.m = "percentile" /\ y.m = "percentile" /\ x.i # y.i /\ x.g = y.g
           /\ \E x \in em : x.m = "min"
           /\ \E x \in em : Len(x.at) = 3
    /\ "histogram" \in DOMAIN applied.data.o.couchdb.o.request_time.o.value.o
    /\ applied.out # EmptyBag

(* C13: _create_metric emits couchdb.<category>.<metric> for a pair of the *)
(* stats document iff its current is not null, and                         *)
(* couchdb.by_db.doc_count / disk_size tagged db:<d> for an entry d of the *)
(* databases it is given iff d's document has that field and it is not     *)
(* null; it emits no other gauge, and none twice.  (It raises only on an   *)
(* entry that is None; the gauges emitted until then are among these.)     *)
ByDbFields == {"doc_count", "disk_size"}

C13_HasField(databases, d, f) ==
    databases[d] # JNull /\ f \in DOMAIN databases[d].o /\ databases[d].o[f] # JNull

C13_GaugesOfNonNull ==
    applied.fn = "_create_metric" =>
        LET stats == applied.stats.o
            databases == applied.databases
            out == BagToSet(applied.out)
            ByDbTags(d) == Append(applied.tags, Tag("db", d))
        IN  /\ \A k \in DOMAIN stats : \A m \in DOMAIN stats[k].o :
                  (\E g \in out : g.name = <<"couchdb", k, m>>) <=> stats[k].o[m].o.current # JNull
            /\ applied.exc = NoExc =>
                  \A d \in DOMAIN databases : \A f \in ByDbFields :
                      (\E g \in out : g.name = <<"couchdb", "by_db", f>> /\ g.tags = ByDbTags(d))
                          <=> C13_HasField(databases, d, f)
            /\ \A g \in out :
                  /\ CopiesIn(g, applied.out) = 1
                  /\ \/ \E k \in DOMAIN stats : \E m \in DOMAIN stats[k].o :
                            g = Gauge(<<"couchdb", k, m>>, stats[k].o[m].o.current, applied.tags)
                     \/ \E d \in DOMAIN databases : \E f \in ByDbFields :
                            /\ C13_HasField(databases, d, f)
                            /\ g = Gauge(<<"couchdb", "by_db", f>>, databases[d].o[f], ByDbTags(d))
            /\ applied.exc # NoExc =>
                  (applied.exc = Exc("AttributeError") /\ \E d \in DOMAIN databases : databases[d] = JNull)

(* C13's case: a completed call whose stats hold a null and a zero         *)
(* current, with one database whose doc_count is 0 and disk_size null and  *)
(* another whose document has neither field.                               *)
C13_Witness ==
    /\ applied.fn = "_create_metric" /\ applied.exc = NoExc
    /\ applied.stats.o.httpd.o.requests.o.current = JNum(0)
    /\ applied.stats.o.couchdb.o.open_databases.o.current = JNull
    /\ DOMAIN applied.databases = DbNames
    /\ \E d \in DbNames :
          /\ applied.databases[d] # JNull
          /\ ByDbFields \subseteq DOMAIN applied.databases[d].o
          /\ applied.databases[d].o.doc_count = JNum(0)
          /\ applied.databases[d].o.disk_size = JNull
    /\ \E d \in DbNames :
          applied.databases[d] # JNull /\ DOMAIN applied.databases[d].o \cap ByDbFields = {}
    /\ \E g \in BagToSet(applied.out) : g.name = <<"couchdb", "by_db", "doc_count">>

(* C14: a v1 run whose databases to poll (discovered, not blacklisted,     *)
(* whitelisted if a whitelist is set) number more than MAX_DB warns,       *)
(* fetches exactly MAX_DB of them and runs to completion; with MAX_DB or   *)
(* fewer it fetches them all; no run makes more than MAX_DB per-database   *)
(* fetches.  CouchDB1 has no warning method: with more than MAX_DB the run *)
(* ends in AttributeError before the first fetch.                          *)
C14_ToPoll ==
    {d \in discovered :
        /\ d \notin Range(checker.db_blacklist[instance.server])
        /\ (Has(instance, "db_whitelist") /\ instance.db_whitelist # <<>>)
              => d \in Range(instance.db_whitelist)}

C14_AtMostMaxDbFetched ==
    (Done /\ IsV1 /\ Has(instance, "server")) =>
        /\ Cardinality(DbReqs) <= MAX_DB
        /\ Cardinality(C14_ToPoll) > MAX_DB =>
              /\ raised # Exc("AttributeError")
              /\ (\A r \in Reqs : Is2xx(r)) =>
                    (raised = NoExc /\ Cardinality({r.url.arg : r \in DbReqs}) = MAX_DB)
              /\ \A r \in DbReqs : r.url.arg \in C14_ToPoll
        /\ (Cardinality(C14_ToPoll) <= MAX_DB /\ raised = NoExc) =>
              \A d \in C14_ToPoll : Fetched(d)

(* The requests an extractor makes, by kind. *)
ExtractorReqs == Reqs \ ProbeReqs
EndpointsOf(kind) ==
    IF kind = "CouchDB1" THEN {"/_stats/", "/_all_dbs/", "<db>"}
    ELSE {"/_node/{}/_stats", "/_all_dbs", "<db>"}

(* C15 as stated: the root is probed once per target and each target's     *)
(* run is handled by an extractor selected from that target's own version. *)
(* The extractor is cached on the check object, not per target: a run      *)
(* against a second target is handled, without a probe, by the extractor   *)
(* the first target's probe selected.                                      *)
C15_ExtractorPerTarget ==
    (Done /\ Resolved /\ ExtractorReqs # {}) => instance.server = resolved_by

(* What the dispatcher does instead: the root is probed until one probe    *)
(* resolves an extractor, from the version that probe's target reported;   *)
(* that extractor handles every later run, whatever its target, and no     *)
(* target is probed again.                                                 *)
C15_Step ==
    Resolved =>
        /\ resolved_by' = resolved_by
        /\ checker'.kind = checker.kind
        /\ \A i \in 1..Len(requests') : requests'[i].url.ep \in EndpointsOf(checker.kind)

C15_ResolvedFromProbe ==
    (Done /\ \E r \in ProbeReqs : Is2xx(r) /\ Resolved) =>
        /\ resolved_by = instance.server
        /\ \A r \in ProbeReqs :
              /\ r.url.server = instance.server
              /\ IsV1 <=> IsMajor(r.body.o.version.s, "1")
              /\ IsV2 <=> IsMajor(r.body.o.version.s, "2")

C15_ExtractorPerCheckObject ==
    /\ [](Resolved <=> resolved_by # NoServer)
    /\ []C15_ResolvedFromProbe
    /\ [][C15_Step]_vars

(* A run against a target other than the one whose probe resolved the      *)
(* extractor has completed.                                                *)
C15_OtherTargetHandled ==
    /\ Done /\ Resolved /\ raised = NoExc
    /\ ExtractorReqs # {} /\ ProbeReqs = {}
    /\ instance.server # resolved_by

(* C16: an invocation whose probe fails (timeout, non-2xx, transport       *)
(* error) or reports a version that is neither 1.x nor 2.x leaves the      *)
(* dispatcher unresolved, with no extractor constructed or run; every      *)
(* invocation on an unresolved dispatcher starts with the probe; and the   *)
(* dispatcher becomes resolved only in an invocation whose probe answered  *)
(* 2xx with a 1.x or 2.x version.                                          *)
C16_Supported(r) ==
    Is2xx(r) /\ (IsMajor(r.body.o.version.s, "1") \/ IsMajor(r.body.o.version.s, "2"))

C16_Step ==
    LET reqs == {requests'[i] : i \in 1..Len(requests')}
        probes == {r \in reqs : r.url.ep = "/"}
    IN  /\ (pc' = "done" /\ \E r \in probes : ~C16_Supported(r)) =>
              /\ checker' = NoChecker
              /\ created' = created
              /\ Len(requests') = 1
              /\ gauges' = EmptyBag
              /\ raised' # NoExc
        /\ (checker = NoChecker /\ pc' = "done" /\ Has(instance', "server")) =>
              /\ Len(requests') >= 1
              /\ requests'[1].url = Url(instance'.server, "/", "")
        /\ (checker = NoChecker /\ checker' # NoChecker) =>
              /\ C16_Supported(requests'[1])
              /\ created' = created + 1

C16_FailedProbeStaysUnresolved == [][C16_Step]_vars

(* C16's case: an invocation after the first found the dispatcher          *)
(* unresolved, probed, was told 3.0.0 and left it unresolved.              *)
C16_Witness ==
    /\ Done /\ nruns >= 2 /\ ~Resolved /\ created = 0
    /\ \E r \in ProbeReqs : Is2xx(r) /\ r.body.o.version.s = V300
    /\ raised = Exc("UnsupportedVersion")

(* C16's other case: the probe itself failed. *)
C16_WitnessProbeFailed ==
    /\ Done /\ nruns >= 2 /\ ~Resolved
    /\ \E r \in ProbeReqs : r.kind = "timeout"

(* C17: the v1 extractor's blacklists are kept per server.  A run against  *)
(* server B changes no blacklist but B's; and a completed run against B    *)
(* has fetched every discovered database that B's own blacklist (and the   *)
(* whitelist, if set) lets through, whatever was denied or configured for  *)
(* another server.  (The v2 extractor has no blacklist: only the whitelist *)
(* keeps it from a database.)                                              *)
C17_Whitelisted(d) ==
    (Has(instance, "db_whitelist") /\ instance.db_whitelist # <<>>) =>
        d \in Range(instance.db_whitelist)

C17_OnlyOwnBlacklistSkips ==
    (Done /\ Resolved /\ Has(instance, "server") /\ raised = NoExc) =>
        \A d \in discovered :
            IF IsV1
            THEN (d \notin Range(checker.db_blacklist[instance.server]) /\ C17_Whitelisted(d))
                     => Fetched(d)
            ELSE (Has(instance, "db_whitelist") => d \in Range(instance.db_whitelist))
                     => Fetched(d)

C17_Step ==
    (pc' = "done" /\ checker'.kind = "CouchDB1" /\ Has(instance', "server")) =>
        \A s \in Servers \ {instance'.server} :
            checker'.db_blacklist[s] = IF IsV1 THEN checker.db_blacklist[s] ELSE <<>>

C17_BlacklistPerServer ==
    /\ []C17_OnlyOwnBlacklistSkips
    /\ [][C17_Step]_vars

(* C17's case: a completed run against one server has fetched a database   *)
(* that was denied on the other server and a database that is in the       *)
(* other server's blacklist by configuration.                              *)
C17_Witness ==
    /\ Done /\ IsV1 /\ raised = NoExc /\ Has(instance, "server")
    /\ \E s \in Servers \ {instance.server} :
          /\ \E d \in DbNames : <<s, d>> \in denied /\ Fetched(d)
          /\ \E d \in Range(checker.db_blacklist[s]) : <<s, d>> \notin denied /\ Fetched(d)

(* C18: a server's blacklist is a set: it never loses a member, it gains a *)
(* database only when that database's fetch was answered 401/403 or when a *)
(* configured db_blacklist entry is not yet in it, and a v1 run with       *)
(* nothing new to add leaves it as it is, so that it holds no name twice.  *)
(* get_data extends the stored list with the whole configured db_blacklist *)
(* on every run: the list grows by the configured entries run after run.   *)
C18_Configured(inst) == IF Has(inst, "db_blacklist") THEN Range(inst.db_blacklist) ELSE {}

C18_Step ==
    (IsV1 /\ pc' = "done" /\ Has(instance', "server")) =>
        LET s == instance'.server
            old == checker.db_blacklist[s]
            new == checker'.db_blacklist[s]
            forbidden == {p[2] : p \in {q \in DeniedIn(requests') : q[1] = s}}
        IN  /\ Range(old) \subseteq Range(new)
            /\ Range(new) \ Range(old) \subseteq forbidden \cup C18_Configured(instance')
            /\ (forbidden = {} /\ C18_Configured(instance') \subseteq Range(old)) => new = old

C18_NoNameTwice ==
    IsV1 => \A s \in Servers :
        Len(checker.db_blacklist[s]) = Cardinality(Range(checker.db_blacklist[s]))

C18_BlacklistIsSet ==
    /\ []C18_NoNameTwice
    /\ [][C18_Step]_vars

(* C19: every by_db gauge of a v1 run tagged db:<d> carries the value of   *)
(* that field in the document fetched successfully for d in the same run:  *)
(* no gauge for a database whose fetch failed, none from another           *)
(* database's document.  After an HTTP error other than 401/403 get_data   *)
(* records the document of the database fetched before under the failing   *)
(* database's name.                                                        *)
C19_ByDbGaugeFromOwnDocument ==
    (Done /\ IsV1) =>
        \A g \in ByDbGauges :
            \E r \in DbReqs :
                /\ Tag("db", r.url.arg) \in Range(g.tags)
                /\ Is2xx(r)
                /\ r.body # JNull
                /\ g.name[3] \in DOMAIN r.body.o
                /\ g.value = r.body.o[g.name[3]]

====
